---------------------------- MODULE Spec2Model ----------------------------
(***************************************************************************)
(* Model of microsetta_private_api:                                        *)
(*   example/client_impl.py      the workflow controller (browser-facing   *)
(*                               handlers, determine_workflow_state and    *)
(*                               the ApiRequest facade)                    *)
(*   repo/interested_user_repo.py  the interested-user repository          *)
(*                                                                         *)
(* A handler is a sequence of steps, one per outbound API call: the remote *)
(* API is shared state, so a call is the unit at which two requests can    *)
(* interleave.  Spec handles one request at a time, as the single-threaded *)
(* server does.                                                            *)
(***************************************************************************)
EXTENDS Integers, Sequences, FiniteSets, TLC

VARIABLES
    session,    \* flask.session: a dict, modelled as a function on its keys
    expired,    \* the tokens whose signature has expired (time passing)
    db,         \* the dataset behind the remote REST API
    reqs,       \* per browser tab: the request being handled and its response
    snap,       \* one earlier derivation, kept to compare later ones with
    probe,      \* one response handed to ApiRequest._check_response
    table,      \* campaign.interested_users: id -> row
    repo        \* the last InterestedUserRepo call and its outcome

vars == <<session, expired, db, reqs, snap, probe, table, repo>>
webVars == <<session, expired, db, reqs, snap>>
repoVars == <<table, repo>>
others == <<snap, probe, table, repo>>

----------------------------------------------------------------------------
(* Bounds of the model *)

MaxAccts == 2
MaxSources == 3
MaxSamples == 2
MaxUsers == 2
MinStatus == 100
MaxStatus == 599

AcctIds == 1..MaxAccts
SrcIds == 11..(10 + MaxSources)
SampleIds == 21..(20 + MaxSamples)
KitNames == {"kA", "kB"}
Tokens == {"tokA", "tokB"}
Tabs == {1, 2}

----------------------------------------------------------------------------
(* Python dicts as functions on the keys present *)

EmptyDict == [k \in {} |-> 0]
Has(d, k) == k \in DOMAIN d
Put(d, k, v) == (k :> v) @@ d
Del(d, k) == [x \in (DOMAIN d) \ {k} |-> d[x]]
Get(d, k, default) == IF k \in DOMAIN d THEN d[k] ELSE default

----------------------------------------------------------------------------
(* Module constants of client_impl.py *)

TOKEN_KEY_NAME == "token"
WORKFLOW_URL == "/workflow"

NEEDS_REROUTE == "NeedsReroute"
NEEDS_LOGIN == "NeedsLogin"
NEEDS_ACCOUNT == "NeedsAccount"
NEEDS_HUMAN_SOURCE == "NeedsHumanSource"
NEEDS_SAMPLE == "NeedsSample"
NEEDS_PRIMARY_SURVEY == "NeedsPrimarySurvey"
ALL_DONE == "AllDone"

PrimarySurvey == 1

----------------------------------------------------------------------------
(* Values a view function returns *)

Url(path, a, s, x) ==
    [path |-> path, account_id |-> a, source_id |-> s, sample_id |-> x]
Plain(path) == Url(path, 0, 0, 0)

Redirect(url) == [kind |-> "redirect", location |-> url]
RenderTemplate(name, args) == [kind |-> "page", template |-> name, vars |-> args]
Raised(exc) == [kind |-> "exception", raised |-> exc]
None == [kind |-> "none"]
Json(v) == [kind |-> "json", val |-> v]

----------------------------------------------------------------------------
(* The remote REST API (spec section 6), a black box to the controller:   *)
(* the dataset it serves and what a successful call returns and changes.  *)

Range(q) == {q[i] : i \in DOMAIN q}
IsHuman(src) == src.source_type = "human"

AccountObj(a) == [account_id |-> a]
SourceObj(src) == [source_id |-> src.source_id]
SurveyObj(t) == [survey_template_id |-> t]
SampleObj(x) == [sample_id |-> x]

Arg(key, str, num) == [key |-> key, str |-> str, num |-> num]
NoArg == Arg("", "", 0)

Associated(d) == UNION {Range(d.samples[s]) : s \in SrcIds}
AllSources(d) == UNION {{src.source_id : src \in Range(d.sources[a])} : a \in AcctIds}
FreeAccts(d) == AcctIds \ (Range(d.accts) \cup d.others)
FreeSources(d) == SrcIds \ AllSources(d)
Min(S) == CHOOSE m \in S : \A n \in S : m <= n

\* What a successful call answers: the parsed JSON body.
ApiBody(d, method, path, arg) ==
    CASE method = "GET" /\ path.path = "/accounts" ->
            Json([i \in DOMAIN d.accts |-> AccountObj(d.accts[i])])
      [] method = "GET" /\ path.path = "/accounts/{a}/sources" ->
            LET listed == IF arg.key = "source_type"
                          THEN SelectSeq(d.sources[path.account_id],
                                         LAMBDA src : src.source_type = arg.str)
                          ELSE d.sources[path.account_id]
            IN Json([i \in DOMAIN listed |-> SourceObj(listed[i])])
      [] method = "GET" /\ path.path = "/accounts/{a}/sources/{s}/surveys" ->
            Json([i \in DOMAIN d.surveys[path.source_id] |->
                    SurveyObj(d.surveys[path.source_id][i])])
      [] method = "GET" /\ path.path = "/accounts/{a}/sources/{s}/samples" ->
            Json([i \in DOMAIN d.samples[path.source_id] |->
                    SampleObj(d.samples[path.source_id][i])])
      [] method = "GET" /\ path.path = "/accounts/{a}/sources/{s}/samples/{x}" ->
            Json(<<SampleObj(path.sample_id)>>)
      [] method = "GET" /\ path.path = "/kits" ->
            Json([i \in DOMAIN d.kits[arg.str] |-> SampleObj(d.kits[arg.str][i])])
      [] method = "GET" /\ path.path = "/accounts/{a}/consent" ->
            Json(<<[consent_html |-> "consent"]>>)
      [] method = "GET" /\ path.path = "/accounts/{a}/sources/{s}/survey_templates/{t}" ->
            Json(<<[survey_template_text |-> "template"]>>)
      [] method = "POST" /\ path.path = "/accounts" ->
            Json(<<AccountObj(Min(FreeAccts(d)))>>)
      [] OTHER -> None

\* Whether the call can succeed at all on this dataset.
ApiCanSucceed(d, method, path, arg) ==
    CASE method = "POST" /\ path.path = "/accounts" -> FreeAccts(d) # {}
      [] method = "POST" /\ path.path = "/accounts/{a}/consent" -> FreeSources(d) # {}
      [] method = "POST" /\ path.path = "/accounts/{a}/sources/{s}/samples" ->
            arg.num \in SampleIds \ Associated(d)
      [] OTHER -> TRUE

\* What a successful call changes.
ApiEffect(d, method, path, arg) ==
    CASE method = "POST" /\ path.path = "/accounts" ->
            [d EXCEPT !.accts = Append(@, Min(FreeAccts(d)))]
      [] method = "POST" /\ path.path = "/accounts/{a}/consent" ->
            [d EXCEPT !.sources[path.account_id] =
                Append(@, [source_id |-> Min(FreeSources(d)), source_type |-> "human"])]
      [] method = "POST" /\ path.path = "/accounts/{a}/sources/{s}/surveys" ->
            [d EXCEPT !.surveys[path.source_id] = Append(@, arg.num)]
      [] method = "POST" /\ path.path = "/accounts/{a}/sources/{s}/samples" ->
            [d EXCEPT !.samples[path.source_id] = Append(@, arg.num),
                      !.kits = [k \in KitNames |->
                                  SelectSeq(d.kits[k], LAMBDA x : x # arg.num)]]
      [] OTHER -> d

Statuses == {200, 401, 500}

\* Every exchange the API may answer a call with: the response and the dataset after.
ApiExchanges(d, method, path, arg) ==
    {[response |-> [status_code |-> st, text |-> "error", json |-> None], db |-> d] :
        st \in {c \in Statuses : c >= 400}}
    \cup
    {[response |-> [status_code |-> st,
                    text |-> IF ApiBody(d, method, path, arg) = None THEN "" ELSE "json",
                    json |-> ApiBody(d, method, path, arg)],
      db |-> ApiEffect(d, method, path, arg)] :
        st \in {c \in Statuses : c < 400 /\ ApiCanSucceed(d, method, path, arg)}}

----------------------------------------------------------------------------
(* The datasets a run may start from: the first account's progress        *)
(* (Level) and, with decoy, data that must not count: a second account    *)
(* further along, an animal source listed before the human one, and a     *)
(* survey of another template listed before the primary one.              *)

Levels == 0..4

RECURSIVE DescSeq(_)
DescSeq(S) ==
    IF S = {} THEN <<>>
    ELSE LET m == CHOOSE x \in S : \A y \in S : y <= x
         IN <<m>> \o DescSeq(S \ {m})

Dataset(level, decoy) ==
    LET accts == IF level = 0 THEN <<>> ELSE IF decoy THEN <<1, 2>> ELSE <<1>>
        sources == [a \in AcctIds |->
            IF a = 1
            THEN (IF decoy /\ level >= 1
                  THEN <<[source_id |-> 12, source_type |-> "animal"]>> ELSE <<>>)
                 \o (IF level >= 2
                     THEN <<[source_id |-> 11, source_type |-> "human"]>> ELSE <<>>)
            ELSE IF a = 2 /\ decoy
                 THEN <<[source_id |-> 13, source_type |-> "human"]>> ELSE <<>>]
        surveys == [s \in SrcIds |->
            IF s = 11
            THEN (IF decoy /\ level >= 2 THEN <<2>> ELSE <<>>)
                 \o (IF level >= 3 THEN <<PrimarySurvey>> ELSE <<>>)
            ELSE IF s \in {12, 13} /\ decoy /\ level >= 1
                 THEN <<PrimarySurvey>> ELSE <<>>]
        samples == [s \in SrcIds |->
            IF s = 11 /\ level >= 4 THEN <<21>>
            ELSE IF s = 13 /\ decoy THEN <<22>> ELSE <<>>]
        used == UNION {Range(samples[s]) : s \in SrcIds}
    IN [accts |-> accts,
        others |-> IF decoy /\ level = 0 THEN {2} ELSE {},
        sources |-> sources,
        surveys |-> surveys,
        samples |-> samples,
        kits |-> [k \in KitNames |->
                    IF k = "kA" THEN DescSeq(SampleIds \ used) ELSE <<>>]]

Datasets == {Dataset(l, d) : l \in Levels, d \in BOOLEAN}

----------------------------------------------------------------------------
(* ApiRequest: the facade over the remote API *)

\* Mutant: only a status above 400 is an error.
CheckResponseAbove400(response) ==
    IF response.status_code = 401
    THEN [do_return |-> TRUE, output |-> Redirect(Plain(WORKFLOW_URL))]
    ELSE IF response.status_code > 400
    THEN [do_return |-> TRUE,
          output |-> RenderTemplate("error.jinja2", [mailto_body |-> response.text])]
    ELSE [do_return |-> FALSE,
          output |-> IF response.text # "" THEN response.json ELSE None]

\* mailto_url embeds quote(response.text); the texts of the model hold no
\* character that quote escapes.
CheckResponse(response) ==
    IF response.status_code = 401
    THEN [do_return |-> TRUE, output |-> Redirect(Plain(WORKFLOW_URL))]
    ELSE IF response.status_code >= 400
    THEN [do_return |-> TRUE,
          output |-> RenderTemplate("error.jinja2", [mailto_body |-> response.text])]
    ELSE [do_return |-> FALSE,
          output |-> IF response.text # "" THEN response.json ELSE None]

----------------------------------------------------------------------------
(* A request in a browser tab *)

DWS == "determine_workflow_state"

IdleReq ==
    [pc |-> "idle", method |-> "", url |-> Plain(""), kit_name |-> "",
     token |-> "", handler |-> "", fn |-> "", origin |-> "",
     ctx |-> EmptyDict, wstate |-> "", derived |-> 0, loc |-> EmptyDict,
     calls |-> <<>>, queue |-> <<>>, resp |-> None]

Finish(r, resp) == [r EXCEPT !.pc = "done", !.resp = resp]

\* determine_workflow_state returns (state, current_state) to its caller.
DwsReturn(r, state, ctx) ==
    [r EXCEPT !.wstate = state, !.ctx = ctx, !.derived = @ + 1, !.pc = "handler"]

CallRec(r, by, method, path, arg, auth, response, res) ==
    [by |-> by, method |-> method, path |-> path, arg |-> arg, auth |-> auth,
     status |-> response.status_code, text |-> response.text,
     json |-> response.json,
     do_return |-> res.do_return, output |-> res.output,
     state |-> r.wstate, derived |-> r.derived]

\* ApiRequest.get/put/post: the bearer token is read from the session (a
\* KeyError without one), the call is made and its response classified.  Each
\* element is one way the call can go: the dataset after it, the request with
\* the call logged, and (do_return, output).
ApiRequest(t, by, method, path, arg) ==
    IF ~Has(session, TOKEN_KEY_NAME)
    THEN {[raised |-> TRUE, db |-> db, r |-> reqs[t],
           res |-> [do_return |-> TRUE, output |-> Raised("KeyError")]]}
    ELSE {[raised |-> FALSE, db |-> ex.db,
           r |-> [reqs[t] EXCEPT !.calls =
                    Append(@, CallRec(reqs[t], by, method, path, arg,
                                      session[TOKEN_KEY_NAME], ex.response,
                                      CheckResponse(ex.response)))],
           res |-> CheckResponse(ex.response)] :
            ex \in ApiExchanges(db, method, path, arg)}

\* The caller goes on with the call's result (next), unless the call raised.
Returns(t, x, next) ==
    /\ db' = x.db
    /\ reqs' = [reqs EXCEPT ![t] =
            IF x.raised THEN Finish(x.r, x.res.output) ELSE next]

----------------------------------------------------------------------------
(* determine_workflow_state, one step per query *)

\* Mutant: the context of the caller's previous derivation is kept.
StaleContext(previous) == previous

\* current_state = {}
NewContext(previous) == EmptyDict

\* Mutant: the queries start whether or not the session holds a token.
DetermineWorkflowStateNoLoginCheck(t) ==
    /\ reqs[t].pc = "dws_login"
    /\ reqs' = [reqs EXCEPT ![t] =
            [@ EXCEPT !.ctx = NewContext(@), !.loc = Del(@, "surveys_output"),
                      !.pc = "dws_accounts"]]
    /\ UNCHANGED <<session, expired, db, others>>

\* current_state = {}; a session without a token needs a login.
DetermineWorkflowState(t) ==
    /\ reqs[t].pc = "dws_login"
    /\ reqs' = [reqs EXCEPT ![t] =
            IF ~Has(session, TOKEN_KEY_NAME)
            THEN DwsReturn(@, NEEDS_LOGIN, NewContext(@.ctx))
            ELSE [@ EXCEPT !.ctx = NewContext(@), !.loc = Del(@, "surveys_output"),
                           !.pc = "dws_accounts"]]
    /\ UNCHANGED <<session, expired, db, others>>

\* Mutant: the last account of the list instead of the first.
AfterAccountsLast(r, res) ==
    IF res.do_return
    THEN DwsReturn(r, NEEDS_REROUTE, Put(r.ctx, "reroute", res.output))
    ELSE IF Len(res.output.val) = 0
    THEN DwsReturn(r, NEEDS_ACCOUNT, r.ctx)
    ELSE [r EXCEPT !.ctx = Put(@, "account_id",
                               res.output.val[Len(res.output.val)].account_id),
                   !.pc = "dws_sources"]

\* Mutant: a list of one account still counts as no account.
AfterAccountsOneIsNone(r, res) ==
    IF res.do_return
    THEN DwsReturn(r, NEEDS_REROUTE, Put(r.ctx, "reroute", res.output))
    ELSE IF Len(res.output.val) <= 1
    THEN DwsReturn(r, NEEDS_ACCOUNT, r.ctx)
    ELSE [r EXCEPT !.ctx = Put(@, "account_id", res.output.val[1].account_id),
                   !.pc = "dws_sources"]

AfterAccounts(r, res) ==
    IF res.do_return
    THEN DwsReturn(r, NEEDS_REROUTE, Put(r.ctx, "reroute", res.output))
    ELSE IF Len(res.output.val) = 0
    THEN DwsReturn(r, NEEDS_ACCOUNT, r.ctx)
    ELSE [r EXCEPT !.ctx = Put(@, "account_id", res.output.val[1].account_id),
                   !.pc = "dws_sources"]

DwsAccounts(t) ==
    /\ reqs[t].pc = "dws_accounts"
    /\ \E x \in ApiRequest(t, DWS, "GET", Plain("/accounts"), NoArg) :
                Returns(t, x, AfterAccounts(x.r, x.res))
    /\ UNCHANGED <<session, expired, others>>

AfterSources(r, res) ==
    IF res.do_return
    THEN DwsReturn(r, NEEDS_REROUTE, Put(r.ctx, "reroute", res.output))
    ELSE IF Len(res.output.val) = 0
    THEN DwsReturn(r, NEEDS_HUMAN_SOURCE, r.ctx)
    ELSE [r EXCEPT !.ctx = Put(@, "human_source_id", res.output.val[1].source_id),
                   !.pc = "dws_surveys"]

DwsSources(t) ==
    /\ reqs[t].pc = "dws_sources"
    /\ \E x \in ApiRequest(t, DWS, "GET",
               Url("/accounts/{a}/sources", reqs[t].ctx["account_id"], 0, 0),
               Arg("source_type", "human", 0)) :
                Returns(t, x, AfterSources(x.r, x.res))
    /\ UNCHANGED <<session, expired, others>>

\* has_primary: some survey of the list has survey_template_id 1.
HasPrimary(surveys_output) ==
    \E i \in DOMAIN surveys_output :
        surveys_output[i].survey_template_id = PrimarySurvey

AfterSurveys(r, res) ==
    IF res.do_return
    THEN DwsReturn(r, NEEDS_REROUTE, Put(r.ctx, "reroute", res.output))
    ELSE IF ~HasPrimary(res.output.val)
    THEN DwsReturn(r, NEEDS_PRIMARY_SURVEY, r.ctx)
    ELSE [r EXCEPT !.loc = Put(@, "surveys_output", res.output),
                   !.pc = "dws_samples"]

DwsSurveys(t) ==
    /\ reqs[t].pc = "dws_surveys"
    /\ \E x \in ApiRequest(t, DWS, "GET",
               Url("/accounts/{a}/sources/{s}/surveys",
                   reqs[t].ctx["account_id"], reqs[t].ctx["human_source_id"], 0),
               NoArg) :
                Returns(t, x, AfterSurveys(x.r, x.res))
    /\ UNCHANGED <<session, expired, others>>

\* On a failed samples query the context's reroute is surveys_output (line 149).
\* Mutant: the samples are put in the context before the list is tested.
AfterSamplesStoredFirst(r, res) ==
    IF res.do_return
    THEN DwsReturn(r, NEEDS_REROUTE, Put(r.ctx, "reroute", r.loc["surveys_output"]))
    ELSE IF Len(res.output.val) = 0
    THEN DwsReturn(r, NEEDS_SAMPLE, Put(r.ctx, "sample_objs", res.output.val))
    ELSE DwsReturn(r, ALL_DONE, Put(r.ctx, "sample_objs", res.output.val))

AfterSamples(r, res) ==
    IF res.do_return
    THEN DwsReturn(r, NEEDS_REROUTE, Put(r.ctx, "reroute", r.loc["surveys_output"]))
    ELSE IF Len(res.output.val) = 0
    THEN DwsReturn(r, NEEDS_SAMPLE, r.ctx)
    ELSE DwsReturn(r, ALL_DONE, Put(r.ctx, "sample_objs", res.output.val))

DwsSamples(t) ==
    /\ reqs[t].pc = "dws_samples"
    /\ \E x \in ApiRequest(t, DWS, "GET",
               Url("/accounts/{a}/sources/{s}/samples",
                   reqs[t].ctx["account_id"], reqs[t].ctx["human_source_id"], 0),
               NoArg) :
                Returns(t, x, AfterSamples(x.r, x.res))
    /\ UNCHANGED <<session, expired, others>>

----------------------------------------------------------------------------
(* Login, logout and the home page *)

\* parse_jwt: the name claim of a token, or ExpiredSignatureError.
NameOf(token) == IF token = "tokA" THEN "alice" ELSE "bob"
IsExpired(token) == token \in expired

HomePage(user, acct_id) ==
    RenderTemplate("home.jinja2", [user |-> user, acct_id |-> acct_id])

\* Mutant: an expired token is not told from a valid one.
HomeIgnoresExpiry(t) ==
    /\ reqs[t].pc = "home"
    /\ reqs' = [reqs EXCEPT ![t] =
            IF Has(session, TOKEN_KEY_NAME)
            THEN [@ EXCEPT !.pc = "dws_login",
                           !.loc = Put(@, "user", NameOf(session[TOKEN_KEY_NAME]))]
            ELSE Finish(@, HomePage("", 0))]
    /\ UNCHANGED <<session, expired, db, others>>

Home(t) ==
    /\ reqs[t].pc = "home"
    /\ reqs' = [reqs EXCEPT ![t] =
            IF Has(session, TOKEN_KEY_NAME)
            THEN IF IsExpired(session[TOKEN_KEY_NAME])
                 THEN Finish(@, Redirect(Plain("/logout")))
                 ELSE [@ EXCEPT !.pc = "dws_login",
                                !.loc = Put(@, "user", NameOf(session[TOKEN_KEY_NAME]))]
            ELSE Finish(@, HomePage("", 0))]
    /\ UNCHANGED <<session, expired, db, others>>

\* home after determine_workflow_state returned: the state is not looked at.
HomeRender(t) ==
    /\ reqs[t].pc = "handler" /\ reqs[t].fn = "home"
    /\ reqs' = [reqs EXCEPT ![t] =
            Finish(@, HomePage(@.loc["user"], Get(@.ctx, "account_id", 0)))]
    /\ UNCHANGED <<session, expired, db, others>>

AuthrocketCallback(t) ==
    /\ reqs[t].pc = "authrocket_callback"
    /\ session' = Put(session, TOKEN_KEY_NAME, reqs[t].token)
    /\ reqs' = [reqs EXCEPT ![t] = Finish(@, Redirect(Plain("/home")))]
    /\ UNCHANGED <<expired, db, others>>

\* del session[TOKEN_KEY_NAME] raises KeyError when the key is absent.
Logout(t) ==
    /\ reqs[t].pc = "logout"
    /\ IF Has(session, TOKEN_KEY_NAME)
       THEN /\ session' = Del(session, TOKEN_KEY_NAME)
            /\ reqs' = [reqs EXCEPT ![t] = Finish(@, Redirect(Plain("/home")))]
       ELSE /\ session' = session
            /\ reqs' = [reqs EXCEPT ![t] = Finish(@, Raised("KeyError"))]
    /\ UNCHANGED <<expired, db, others>>

\* Time passes: a token's signature expires.
TokenExpires ==
    /\ \E k \in Tokens \ expired : expired' = expired \cup {k}
    /\ UNCHANGED <<session, db, reqs, others>>

----------------------------------------------------------------------------
(* /workflow *)

WorkflowResponse(next_state, current_state) ==
    CASE next_state = NEEDS_REROUTE -> current_state["reroute"]
      [] next_state = NEEDS_LOGIN -> Redirect(Plain("/home"))
      [] next_state = NEEDS_ACCOUNT -> Redirect(Plain("/workflow_create_account"))
      [] next_state = NEEDS_HUMAN_SOURCE ->
            Redirect(Plain("/workflow_create_human_source"))
      [] next_state = NEEDS_PRIMARY_SURVEY ->
            Redirect(Plain("/workflow_take_primary_survey"))
      [] next_state = NEEDS_SAMPLE -> Redirect(Plain("/workflow_claim_kit_samples"))
      [] next_state = ALL_DONE ->
            Redirect(Url("/accounts/{a}/sources/{s}", current_state["account_id"],
                         current_state["human_source_id"], 0))
      [] OTHER -> None

Workflow(t) ==
    /\ reqs[t].pc = "handler" /\ reqs[t].fn = "workflow"
    /\ reqs' = [reqs EXCEPT ![t] = Finish(@, WorkflowResponse(@.wstate, @.ctx))]
    /\ UNCHANGED <<session, expired, db, others>>

----------------------------------------------------------------------------
(* The guarded handlers: each runs once determine_workflow_state returned *)

AtHandler(t, name) == reqs[t].pc = "handler" /\ reqs[t].fn = name

ToWorkflow == Redirect(Plain(WORKFLOW_URL))

\* return output if do_return, else redirect(WORKFLOW_URL)
OutputOrWorkflow(r, res) ==
    IF res.do_return THEN Finish(r, res.output) ELSE Finish(r, ToWorkflow)

GetWorkflowCreateAccount(t) ==
    /\ AtHandler(t, "get_workflow_create_account")
    /\ reqs' = [reqs EXCEPT ![t] =
            IF @.wstate # NEEDS_ACCOUNT THEN Finish(@, ToWorkflow)
            ELSE IF ~Has(session, TOKEN_KEY_NAME) THEN Finish(@, Raised("KeyError"))
            ELSE IF IsExpired(session[TOKEN_KEY_NAME])
            THEN Finish(@, Raised("ExpiredSignatureError"))
            ELSE Finish(@, RenderTemplate("create_acct.jinja2",
                    [authorized_email |-> NameOf(session[TOKEN_KEY_NAME])]))]
    /\ UNCHANGED <<session, expired, db, others>>

\* Mutant: the account is posted in any state but NeedsLogin.
PostWorkflowCreateAccountUnguarded(t) ==
    /\ AtHandler(t, "post_workflow_create_account")
    /\ IF reqs[t].wstate # NEEDS_LOGIN
       THEN /\ session' = Put(session, "kit_name", reqs[t].kit_name)
            /\ \E x \in ApiRequest(t, "post_workflow_create_account", "POST", Plain("/accounts"),
                       Arg("kit_name", reqs[t].kit_name, 0)) :
                Returns(t, x, OutputOrWorkflow(x.r, x.res))
       ELSE /\ reqs' = [reqs EXCEPT ![t] = Finish(@, ToWorkflow)]
            /\ UNCHANGED <<session, db>>
    /\ UNCHANGED <<expired, others>>

PostWorkflowCreateAccount(t) ==
    /\ AtHandler(t, "post_workflow_create_account")
    /\ IF reqs[t].wstate = NEEDS_ACCOUNT
       THEN /\ session' = Put(session, "kit_name", reqs[t].kit_name)
            /\ \E x \in ApiRequest(t, "post_workflow_create_account", "POST", Plain("/accounts"),
                       Arg("kit_name", reqs[t].kit_name, 0)) :
                Returns(t, x, OutputOrWorkflow(x.r, x.res))
       ELSE /\ reqs' = [reqs EXCEPT ![t] = Finish(@, ToWorkflow)]
            /\ UNCHANGED <<session, db>>
    /\ UNCHANGED <<expired, others>>

\* return consent_output if do_return else consent_output["consent_html"]
ConsentPage(r, res) ==
    IF res.do_return THEN Finish(r, res.output)
    ELSE Finish(r, RenderTemplate("", [html |-> res.output.val[1].consent_html]))

GetWorkflowCreateHumanSource(t) ==
    /\ AtHandler(t, "get_workflow_create_human_source")
    /\ IF reqs[t].wstate # NEEDS_HUMAN_SOURCE
       THEN /\ reqs' = [reqs EXCEPT ![t] = Finish(@, ToWorkflow)]
            /\ db' = db
       ELSE \E x \in ApiRequest(t, "get_workflow_create_human_source", "GET",
                    Url("/accounts/{a}/consent", reqs[t].ctx["account_id"], 0, 0),
                    Arg("consent_post_url", "/workflow_create_human_source", 0)) :
                Returns(t, x, ConsentPage(x.r, x.res))
    /\ UNCHANGED <<session, expired, others>>

\* if do_return: return consent_output; otherwise the function ends, returning None
OutputOrNone(r, res) ==
    IF res.do_return THEN Finish(r, res.output) ELSE Finish(r, None)

PostWorkflowCreateHumanSource(t) ==
    /\ AtHandler(t, "post_workflow_create_human_source")
    /\ IF reqs[t].wstate # NEEDS_HUMAN_SOURCE
       THEN /\ reqs' = [reqs EXCEPT ![t] = Finish(@, ToWorkflow)]
            /\ db' = db
       ELSE \E x \in ApiRequest(t, "post_workflow_create_human_source", "POST",
                    Url("/accounts/{a}/consent", reqs[t].ctx["account_id"], 0, 0),
                    Arg("body", "consent", 0)) :
                Returns(t, x, OutputOrNone(x.r, x.res))
    /\ UNCHANGED <<session, expired, others>>

\* With a kit_name in the session the handler calls
\* post_workflow_claim_kit_samples({'kit_name': session['kit_name']}).
GetWorkflowClaimKitSamples(t) ==
    /\ AtHandler(t, "get_workflow_claim_kit_samples")
    /\ reqs' = [reqs EXCEPT ![t] =
            IF @.wstate # NEEDS_SAMPLE THEN Finish(@, ToWorkflow)
            ELSE IF Has(session, "kit_name")
            THEN [@ EXCEPT !.fn = "post_workflow_claim_kit_samples",
                           !.kit_name = session["kit_name"],
                           !.pc = "dws_login"]
            ELSE Finish(@, RenderTemplate("kit_sample_association.jinja2", EmptyDict))]
    /\ UNCHANGED <<session, expired, db, others>>

\* The kit's unassociated samples, then the loop over them.
AfterKits(r, res) ==
    IF res.do_return THEN Finish(r, res.output)
    ELSE IF Len(res.output.val) = 0 THEN Finish(r, ToWorkflow)
    ELSE [r EXCEPT !.loc = Put(Put(Put(@, "sample_output", res.output.val),
                                   "acct_id", r.ctx["account_id"]),
                               "source_id", r.ctx["human_source_id"]),
                   !.queue = res.output.val,
                   !.pc = "associate"]

PostWorkflowClaimKitSamples(t) ==
    /\ AtHandler(t, "post_workflow_claim_kit_samples")
    /\ IF reqs[t].wstate = NEEDS_SAMPLE
       THEN \E x \in ApiRequest(t, "post_workflow_claim_kit_samples", "GET", Plain("/kits"),
                    Arg("kit_name", reqs[t].kit_name, 0)) :
                Returns(t, x, AfterKits(x.r, x.res))
       ELSE /\ reqs' = [reqs EXCEPT ![t] = Finish(@, ToWorkflow)]
            /\ db' = db
    /\ UNCHANGED <<session, expired, others>>

\* One turn of the loop: associate curr_sample_obj, return on the first failure.
\* Mutant: a failed association is skipped and the loop goes on.
AfterAssociateContinue(r, res) ==
    IF Len(r.queue) = 1
    THEN (IF res.do_return THEN Finish(r, res.output)
          ELSE Finish([r EXCEPT !.queue = <<>>], ToWorkflow))
    ELSE [r EXCEPT !.queue = Tail(@)]

AfterAssociate(r, res) ==
    IF res.do_return THEN Finish(r, res.output)
    ELSE IF Len(r.queue) = 1 THEN Finish([r EXCEPT !.queue = <<>>], ToWorkflow)
    ELSE [r EXCEPT !.queue = Tail(@)]

AssociateSample(t) ==
    /\ reqs[t].pc = "associate"
    /\ \E x \in ApiRequest(t, "post_workflow_claim_kit_samples", "POST",
               Url("/accounts/{a}/sources/{s}/samples",
                   reqs[t].loc["acct_id"], reqs[t].loc["source_id"], 0),
               Arg("sample_id", "", Head(reqs[t].queue).sample_id)) :
                Returns(t, x, AfterAssociate(x.r, x.res))
    /\ UNCHANGED <<session, expired, others>>

SurveyPage(r, res) ==
    IF res.do_return THEN Finish(r, res.output)
    ELSE Finish(r, RenderTemplate("survey.jinja2",
                [survey_schema |-> res.output.val[1].survey_template_text]))

GetWorkflowFillPrimarySurvey(t) ==
    /\ AtHandler(t, "get_workflow_fill_primary_survey")
    /\ IF reqs[t].wstate # NEEDS_PRIMARY_SURVEY
       THEN /\ reqs' = [reqs EXCEPT ![t] = Finish(@, ToWorkflow)]
            /\ db' = db
       ELSE \E x \in ApiRequest(t, "get_workflow_fill_primary_survey", "GET",
                    Url("/accounts/{a}/sources/{s}/survey_templates/{t}",
                        reqs[t].ctx["account_id"], reqs[t].ctx["human_source_id"],
                        PrimarySurvey),
                    NoArg) :
                Returns(t, x, SurveyPage(x.r, x.res))
    /\ UNCHANGED <<session, expired, others>>

\* Mutant: the survey is also posted when only the samples are missing.
PostWorkflowFillPrimarySurveyLate(t) ==
    /\ AtHandler(t, "post_workflow_fill_primary_survey")
    /\ IF reqs[t].wstate \in {NEEDS_PRIMARY_SURVEY, NEEDS_SAMPLE}
       THEN \E x \in ApiRequest(t, "post_workflow_fill_primary_survey", "POST",
                    Url("/accounts/{a}/sources/{s}/surveys",
                        reqs[t].ctx["account_id"], reqs[t].ctx["human_source_id"], 0),
                    Arg("survey_template_id", "", PrimarySurvey)) :
                Returns(t, x, OutputOrWorkflow(x.r, x.res))
       ELSE /\ reqs' = [reqs EXCEPT ![t] = Finish(@, ToWorkflow)]
            /\ db' = db
    /\ UNCHANGED <<session, expired, others>>

PostWorkflowFillPrimarySurvey(t) ==
    /\ AtHandler(t, "post_workflow_fill_primary_survey")
    /\ IF reqs[t].wstate = NEEDS_PRIMARY_SURVEY
       THEN \E x \in ApiRequest(t, "post_workflow_fill_primary_survey", "POST",
                    Url("/accounts/{a}/sources/{s}/surveys",
                        reqs[t].ctx["account_id"], reqs[t].ctx["human_source_id"], 0),
                    Arg("survey_template_id", "", PrimarySurvey)) :
                Returns(t, x, OutputOrWorkflow(x.r, x.res))
       ELSE /\ reqs' = [reqs EXCEPT ![t] = Finish(@, ToWorkflow)]
            /\ db' = db
    /\ UNCHANGED <<session, expired, others>>

\* get_source, get_sample and put_sample address the ids of the URL.
SourcePage(r, res) ==
    IF res.do_return THEN Finish(r, res.output)
    ELSE Finish(r, RenderTemplate("source.jinja2",
                [acct_id |-> r.url.account_id, source_id |-> r.url.source_id,
                 samples |-> res.output.val]))

GetSource(t) ==
    /\ AtHandler(t, "get_source")
    /\ IF reqs[t].wstate # ALL_DONE
       THEN /\ reqs' = [reqs EXCEPT ![t] = Finish(@, ToWorkflow)]
            /\ db' = db
       ELSE \E x \in ApiRequest(t, "get_source", "GET",
                    Url("/accounts/{a}/sources/{s}/samples",
                        reqs[t].url.account_id, reqs[t].url.source_id, 0),
                    NoArg) :
                Returns(t, x, SourcePage(x.r, x.res))
    /\ UNCHANGED <<session, expired, others>>

SamplePage(r, res) ==
    IF res.do_return THEN Finish(r, res.output)
    ELSE Finish(r, RenderTemplate("sample.jinja2",
                [acct_id |-> r.url.account_id, source_id |-> r.url.source_id,
                 sample |-> res.output.val]))

GetSample(t) ==
    /\ AtHandler(t, "get_sample")
    /\ IF reqs[t].wstate # ALL_DONE
       THEN /\ reqs' = [reqs EXCEPT ![t] = Finish(@, ToWorkflow)]
            /\ db' = db
       ELSE \E x \in ApiRequest(t, "get_sample", "GET",
                    Url("/accounts/{a}/sources/{s}/samples/{x}",
                        reqs[t].url.account_id, reqs[t].url.source_id,
                        reqs[t].url.sample_id),
                    NoArg) :
                Returns(t, x, SamplePage(x.r, x.res))
    /\ UNCHANGED <<session, expired, others>>

OutputOrSource(r, res) ==
    IF res.do_return THEN Finish(r, res.output)
    ELSE Finish(r, Redirect(Url("/accounts/{a}/sources/{s}",
                                r.url.account_id, r.url.source_id, 0)))

PutSample(t) ==
    /\ AtHandler(t, "put_sample")
    /\ IF reqs[t].wstate # ALL_DONE
       THEN /\ reqs' = [reqs EXCEPT ![t] = Finish(@, ToWorkflow)]
            /\ db' = db
       ELSE \E x \in ApiRequest(t, "put_sample", "PUT",
                    Url("/accounts/{a}/sources/{s}/samples/{x}",
                        reqs[t].url.account_id, reqs[t].url.source_id,
                        reqs[t].url.sample_id),
                    Arg("body", "form", 0)) :
                Returns(t, x, OutputOrSource(x.r, x.res))
    /\ UNCHANGED <<session, expired, others>>

----------------------------------------------------------------------------
(* The browser: the routes of the external interface (spec section 6) and *)
(* the requests a tab sends, on the user's behalf or following a redirect  *)

HandlerOf(method, path) ==
    CASE method = "GET" /\ path = "/home" -> "home"
      [] method = "GET" /\ path = "/authrocket_callback" -> "authrocket_callback"
      [] method = "GET" /\ path = "/logout" -> "logout"
      [] method = "GET" /\ path = "/workflow" -> "workflow"
      [] method = "GET" /\ path = "/workflow_create_account" ->
            "get_workflow_create_account"
      [] method = "POST" /\ path = "/workflow_create_account" ->
            "post_workflow_create_account"
      [] method = "GET" /\ path = "/workflow_create_human_source" ->
            "get_workflow_create_human_source"
      [] method = "POST" /\ path = "/workflow_create_human_source" ->
            "post_workflow_create_human_source"
      [] method = "GET" /\ path = "/workflow_claim_kit_samples" ->
            "get_workflow_claim_kit_samples"
      [] method = "POST" /\ path = "/workflow_claim_kit_samples" ->
            "post_workflow_claim_kit_samples"
      [] method = "GET" /\ path = "/workflow_fill_primary_survey" ->
            "get_workflow_fill_primary_survey"
      [] method = "POST" /\ path = "/workflow_fill_primary_survey" ->
            "post_workflow_fill_primary_survey"
      [] method = "GET" /\ path = "/accounts/{a}/sources/{s}" -> "get_source"
      [] method = "GET" /\ path = "/accounts/{a}/sources/{s}/samples/{x}" ->
            "get_sample"
      [] method = "PUT" /\ path = "/accounts/{a}/sources/{s}/samples/{x}" ->
            "put_sample"
      [] OTHER -> ""

EntryPc(handler) ==
    CASE handler = "home" -> "home"
      [] handler = "authrocket_callback" -> "authrocket_callback"
      [] handler = "logout" -> "logout"
      [] handler = "" -> "done"
      [] OTHER -> "dws_login"

NotFound == RenderTemplate("404", EmptyDict)

NewRequest(method, url, kit_name, token, origin) ==
    LET h == HandlerOf(method, url.path)
    IN [IdleReq EXCEPT !.pc = EntryPc(h), !.method = method, !.url = url,
                       !.kit_name = kit_name, !.token = token,
                       !.handler = h, !.fn = h, !.origin = origin,
                       !.resp = IF h = "" THEN NotFound ELSE None]

\* The ids a user may put in a URL: the first account's and another's.
PathIds == {<<1, 11, 21>>, <<2, 13, 22>>}

UserRequests ==
    {NewRequest("GET", Plain(p), "", "", "user") :
        p \in {"/home", "/logout", "/workflow", "/workflow_create_account",
               "/workflow_create_human_source", "/workflow_claim_kit_samples",
               "/workflow_fill_primary_survey"}}
    \cup {NewRequest("GET", Plain("/authrocket_callback"), "", k, "user") : k \in Tokens}
    \cup {NewRequest("POST", Plain(p), "", "", "user") :
        p \in {"/workflow_create_human_source", "/workflow_fill_primary_survey"}}
    \cup {NewRequest("POST", Plain(p), k, "", "user") :
        p \in {"/workflow_create_account", "/workflow_claim_kit_samples"},
        k \in KitNames}
    \cup {NewRequest("GET", Url("/accounts/{a}/sources/{s}", i[1], i[2], 0),
                     "", "", "user") : i \in PathIds}
    \cup {NewRequest(m, Url("/accounts/{a}/sources/{s}/samples/{x}", i[1], i[2], i[3]),
                     "", "", "user") : m \in {"GET", "PUT"}, i \in PathIds}

AtRest(r) == r.pc = "idle" \/ (r.pc = "done" /\ r.resp.kind # "redirect")

\* The user opens a page or submits a form.
Request(t) ==
    /\ AtRest(reqs[t])
    /\ \E q \in UserRequests : reqs' = [reqs EXCEPT ![t] = q]
    /\ UNCHANGED <<session, expired, db, others>>

Saw401(r) == \E i \in DOMAIN r.calls : r.calls[i].status = 401

\* What led the browser to a redirect's location: home's redirect (it has one,
\* to /logout on an expired token), the logout that followed it, a response to
\* a request that saw a 401, or any other redirect.
OriginAfter(r) ==
    IF r.handler = "home" THEN "expired"
    ELSE IF r.handler = "logout" /\ r.origin = "expired" THEN "forced_logout"
    ELSE IF Saw401(r) THEN "redirect401"
    ELSE "redirect"

\* The browser follows a redirect with a GET of its location.
Follow(t) ==
    /\ reqs[t].pc = "done" /\ reqs[t].resp.kind = "redirect"
    /\ reqs' = [reqs EXCEPT ![t] =
            NewRequest("GET", @.resp.location, "", "",
                       OriginAfter(@))]
    /\ UNCHANGED <<session, expired, db, others>>

----------------------------------------------------------------------------
(* The controller, one request at a time *)

Sessions ==
    {EmptyDict} \cup {(TOKEN_KEY_NAME :> k) : k \in Tokens}
    \cup {("kit_name" :> n) : n \in KitNames}
    \cup {(TOKEN_KEY_NAME :> k) @@ ("kit_name" :> n) : k \in Tokens, n \in KitNames}

NoSnap == [on |-> FALSE, taken |-> FALSE, has_token |-> FALSE,
           responses |-> <<>>, state |-> "", ctx |-> EmptyDict]

NoProbe == [applied |-> FALSE, status_code |-> 0, text |-> "", json |-> None,
            do_return |-> FALSE, output |-> None]

\* No verifier response: the call did not ask the verifier.
NoMelissa ==
    [raises |-> FALSE, valid |-> FALSE, address_1 |-> "", address_2 |-> "",
     city |-> "", state |-> "", postal |-> "", latitude |-> "", longitude |-> ""]

\* The last repository call, and writes: the UPDATEs verify_address has made
\* on each row so far.
NoRepoCall ==
    [op |-> "", id |-> 0, ret |-> "", verifier |-> 0, before |-> EmptyDict,
     melissa |-> NoMelissa, writes |-> [u \in 1..MaxUsers |-> 0]]

Init ==
    /\ session \in Sessions
    /\ expired \in SUBSET Tokens
    /\ db \in Datasets
    /\ reqs = [t \in Tabs |-> IdleReq]
    /\ snap = NoSnap
    /\ probe = NoProbe
    /\ table = EmptyDict
    /\ repo = NoRepoCall

Step(t) ==
    \/ Request(t)
    \/ Follow(t)
    \/ Home(t)
    \/ HomeRender(t)
    \/ AuthrocketCallback(t)
    \/ Logout(t)
    \/ DetermineWorkflowState(t)
    \/ DwsAccounts(t)
    \/ DwsSources(t)
    \/ DwsSurveys(t)
    \/ DwsSamples(t)
    \/ Workflow(t)
    \/ GetWorkflowCreateAccount(t)
    \/ PostWorkflowCreateAccount(t)
    \/ GetWorkflowCreateHumanSource(t)
    \/ PostWorkflowCreateHumanSource(t)
    \/ GetWorkflowClaimKitSamples(t)
    \/ PostWorkflowClaimKitSamples(t)
    \/ AssociateSample(t)
    \/ GetWorkflowFillPrimarySurvey(t)
    \/ PostWorkflowFillPrimarySurvey(t)
    \/ GetSource(t)
    \/ GetSample(t)
    \/ PutSample(t)

Next == Step(1) \/ TokenExpires

Spec == Init /\ [][Next]_vars

----------------------------------------------------------------------------
(* The derivations of a run compared: one of them, any, is recorded with   *)
(* the responses it got, and every later one is compared with it.          *)

Responses(made) ==
    [i \in DOMAIN made |->
        [status_code |-> made[i].status, text |-> made[i].text, json |-> made[i].json]]

Snapshot(t) ==
    /\ snap.on /\ ~snap.taken
    /\ reqs[t].pc = "handler"
    /\ snap' = [on |-> TRUE, taken |-> TRUE,
                has_token |-> Has(session, TOKEN_KEY_NAME),
                responses |-> Responses(
                    SelectSeq(reqs[t].calls,
                              LAMBDA c : c.by = DWS /\ c.derived = reqs[t].derived - 1)),
                state |-> reqs[t].wstate, ctx |-> reqs[t].ctx]
    /\ UNCHANGED <<session, expired, db, reqs, probe, repoVars>>

DetInit ==
    /\ session \in {s \in Sessions : Has(s, "kit_name") => s["kit_name"] = "kA"}
    /\ expired = {}
    /\ db \in {Dataset(0, FALSE), Dataset(3, TRUE)}
    /\ reqs = [t \in Tabs |-> IdleReq]
    /\ snap = [NoSnap EXCEPT !.on = TRUE]
    /\ probe = NoProbe
    /\ table = EmptyDict
    /\ repo = NoRepoCall

DetNext == Step(1) \/ Snapshot(1)

DetSpec == DetInit /\ [][DetNext]_vars

----------------------------------------------------------------------------
(* Two requests of one session handled by two workers at once: each tab    *)
(* submits the create-account form once, and the steps of the two handlers *)
(* interleave freely.  A request's origin tells whether the other tab's    *)
(* request had been answered when it arrived.                              *)

RaceRequest(t) ==
    /\ reqs[t].pc = "idle"
    /\ \E k \in KitNames :
        reqs' = [reqs EXCEPT ![t] =
            NewRequest("POST", Plain("/workflow_create_account"), k, "",
                       IF \E u \in Tabs \ {t} : reqs[u].pc = "done"
                       THEN "user, other tab answered" ELSE "user")]
    /\ UNCHANGED <<session, expired, db, others>>

RaceInit ==
    /\ session \in {EmptyDict} \cup {(TOKEN_KEY_NAME :> k) : k \in Tokens}
    /\ expired = {}
    /\ db \in {Dataset(0, FALSE), Dataset(0, TRUE), Dataset(1, FALSE)}
    /\ reqs = [t \in Tabs |-> IdleReq]
    /\ snap = NoSnap
    /\ probe = NoProbe
    /\ table = EmptyDict
    /\ repo = NoRepoCall

RaceStep(t) ==
    \/ RaceRequest(t)
    \/ DetermineWorkflowState(t)
    \/ DwsAccounts(t)
    \/ DwsSources(t)
    \/ PostWorkflowCreateAccount(t)

RaceNext == \E t \in Tabs : RaceStep(t)

RaceSpec == RaceInit /\ [][RaceNext]_vars

----------------------------------------------------------------------------
(* A browser that asks for /workflow and then only follows redirects, the  *)
(* API answering every call with success.  The handlers are those a        *)
(* redirect from /workflow leads to.                                       *)

\* No call of the request in hand has failed.
Succeeds == \A i \in DOMAIN reqs'[1].calls : ~reqs'[1].calls[i].do_return

ChainInit ==
    /\ session \in Sessions
    /\ expired = {}
    /\ db \in Datasets
    /\ reqs = [t \in Tabs |->
                IF t = 1 THEN NewRequest("GET", Plain(WORKFLOW_URL), "", "", "user")
                ELSE IdleReq]
    /\ snap = NoSnap
    /\ probe = NoProbe
    /\ table = EmptyDict
    /\ repo = NoRepoCall

ChainNext ==
    \/ Follow(1)
    \/ Home(1)
    \/ DetermineWorkflowState(1)
    \/ DwsAccounts(1) /\ Succeeds
    \/ DwsSources(1) /\ Succeeds
    \/ DwsSurveys(1) /\ Succeeds
    \/ DwsSamples(1) /\ Succeeds
    \/ Workflow(1)
    \/ GetWorkflowCreateAccount(1)
    \/ GetWorkflowCreateHumanSource(1) /\ Succeeds
    \/ GetWorkflowClaimKitSamples(1)
    \/ PostWorkflowClaimKitSamples(1) /\ Succeeds
    \/ AssociateSample(1) /\ Succeeds
    \/ GetSource(1) /\ Succeeds

\* The server answers each request and the browser follows each redirect.
ChainSpec == ChainInit /\ [][ChainNext]_vars /\ WF_vars(ChainNext)

----------------------------------------------------------------------------
(* ApiRequest._check_response on its own, over every status code *)

ProbeTexts == {"", "json"}

ClassifyInit ==
    /\ session = EmptyDict
    /\ expired = {}
    /\ db = Dataset(0, FALSE)
    /\ reqs = [t \in Tabs |-> IdleReq]
    /\ snap = NoSnap
    /\ probe \in {[NoProbe EXCEPT !.status_code = st, !.text = tx,
                                  !.json = IF tx = "" THEN None ELSE Json(<<>>)] :
                    st \in MinStatus..MaxStatus, tx \in ProbeTexts}
    /\ table = EmptyDict
    /\ repo = NoRepoCall

CheckResponseStep ==
    /\ ~probe.applied
    /\ probe' = [probe EXCEPT !.applied = TRUE,
                              !.do_return = CheckResponse(probe).do_return,
                              !.output = CheckResponse(probe).output]
    /\ UNCHANGED <<webVars, repoVars>>

ClassifyNext == CheckResponseStep

ClassifySpec == ClassifyInit /\ [][ClassifyNext]_vars

----------------------------------------------------------------------------
(* InterestedUserRepo over campaign.interested_users: the table is a       *)
(* function from interested_user_id to the row's address columns, and repo *)
(* holds the last call: what it was given, what it returned or raised, how *)
(* often it called the verifier and what the verifier answered, and the    *)
(* table it found.                                                         *)

UserIds == 1..MaxUsers

\* The interested users a caller hands to insert_interested_user.
InterestedUsers ==
    [address_1 : {"", "9500 gilman"}, address_2 : {""}, city : {"la jolla"},
     state : {"ca"}, postal_code : {"", "92093"}, country : {"", "United States"},
     latitude : {""}, longitude : {""},
     address_checked : BOOLEAN, address_valid : BOOLEAN]

\* What util.melissa.verify_address answers; "raises" stands for any exception.
MelissaResponses ==
    {[raises |-> TRUE, valid |-> FALSE, address_1 |-> "", address_2 |-> "",
      city |-> "", state |-> "", postal |-> "", latitude |-> "", longitude |-> ""],
     [raises |-> FALSE, valid |-> FALSE, address_1 |-> "", address_2 |-> "",
      city |-> "", state |-> "", postal |-> "", latitude |-> "", longitude |-> ""],
     [raises |-> FALSE, valid |-> TRUE, address_1 |-> "9500 GILMAN DR", address_2 |-> "",
      city |-> "LA JOLLA", state |-> "CA", postal |-> "92093-0001",
      latitude |-> "32.88", longitude |-> "-117.23"]}

\* Mutant: the SELECT without its address_checked = false condition.
SelectsIgnoringChecked(tbl, id) ==
    /\ Has(tbl, id)
    /\ tbl[id].address_1 # ""
    /\ tbl[id].postal_code # ""
    /\ tbl[id].country # ""

\* The SELECT of verify_address finds the row.
Selects(tbl, id) ==
    /\ Has(tbl, id)
    /\ tbl[id].address_checked = FALSE
    /\ tbl[id].address_1 # ""
    /\ tbl[id].postal_code # ""
    /\ tbl[id].country # ""

\* Mutant: the verified address brings its country along.
ValidUpdateWithCountry(row, melissa_response) ==
    [row EXCEPT !.address_checked = TRUE, !.address_valid = TRUE,
                !.address_1 = melissa_response.address_1,
                !.address_2 = melissa_response.address_2,
                !.city = melissa_response.city,
                !.state = melissa_response.state,
                !.postal_code = melissa_response.postal,
                !.country = "US",
                !.latitude = melissa_response.latitude,
                !.longitude = melissa_response.longitude]

\* The valid branch's UPDATE: the verifier's address and coordinates, country
\* left alone.
ValidUpdate(row, melissa_response) ==
    [row EXCEPT !.address_checked = TRUE, !.address_valid = TRUE,
                !.address_1 = melissa_response.address_1,
                !.address_2 = melissa_response.address_2,
                !.city = melissa_response.city,
                !.state = melissa_response.state,
                !.postal_code = melissa_response.postal,
                !.latitude = melissa_response.latitude,
                !.longitude = melissa_response.longitude]

\* Mutant: an address found invalid is blanked.
InvalidUpdateBlanksAddress(row) ==
    [row EXCEPT !.address_checked = TRUE, !.address_valid = FALSE, !.address_1 = ""]

\* Mutant: an address found invalid stays unchecked.
InvalidUpdateUnchecked(row) ==
    [row EXCEPT !.address_valid = FALSE]

\* The other branch's UPDATE.
InvalidUpdate(row) ==
    [row EXCEPT !.address_checked = TRUE, !.address_valid = FALSE]

\* Mutant: a verifier that raised counts as an address found invalid.
VerifierRaisedMarksInvalid(row) ==
    [row |-> [row EXCEPT !.address_checked = TRUE, !.address_valid = FALSE],
     ret |-> "RepoException", updates |-> 1]

\* except Exception as e: raise RepoException(e), before any UPDATE.
VerifierRaised(row) == [row |-> row, ret |-> "RepoException", updates |-> 0]

\* if interested_user_id is None: raise RepoException, else return it; the
\* null id is 0 here.
Returned(interested_user_id) ==
    IF interested_user_id = 0 THEN "RepoException" ELSE "id"

RepoCall(op, id, ret, verifier, melissa_response, updates) ==
    [op |-> op, id |-> id, ret |-> ret, verifier |-> verifier, before |-> table,
     melissa |-> melissa_response,
     writes |-> [u \in UserIds |-> repo.writes[u] + IF u = id THEN updates ELSE 0]]

\* What cur.fetchone() gives after INSERT ... RETURNING interested_user_id:
\* a row with the new id, a row with a null id, or no row at all, and then
\* fetchone()[0] raises TypeError.  Only a row with an id is a row of the table.
InsertInterestedUser ==
    \E interested_user \in InterestedUsers, fetched \in {"id", "null", "no row"} :
        LET interested_user_id == Cardinality(DOMAIN table) + 1
        IN /\ interested_user_id \in UserIds
           /\ IF fetched = "no row"
              THEN /\ table' = table
                   /\ repo' = RepoCall("insert_interested_user", 0, "TypeError",
                                       0, NoMelissa, 0)
              ELSE IF fetched = "null"
              THEN /\ table' = table
                   /\ repo' = RepoCall("insert_interested_user", 0, Returned(0),
                                       0, NoMelissa, 0)
              ELSE /\ table' = Put(table, interested_user_id, interested_user)
                   /\ repo' = RepoCall("insert_interested_user", interested_user_id,
                                       Returned(interested_user_id), 0, NoMelissa, 0)
           /\ UNCHANGED <<webVars, probe>>

VerifyAddress ==
    \E interested_user_id \in UserIds, melissa_response \in MelissaResponses :
        /\ IF ~Selects(table, interested_user_id)
           THEN /\ table' = table
                /\ repo' = RepoCall("verify_address", interested_user_id, "None",
                                    0, NoMelissa, 0)
           ELSE IF melissa_response.raises
           THEN LET out == VerifierRaised(table[interested_user_id])
                IN /\ table' = [table EXCEPT ![interested_user_id] = out.row]
                   /\ repo' = RepoCall("verify_address", interested_user_id, out.ret,
                                       1, melissa_response, out.updates)
           ELSE IF melissa_response.valid = TRUE
           THEN /\ table' = [table EXCEPT ![interested_user_id] =
                                ValidUpdate(@, melissa_response)]
                /\ repo' = RepoCall("verify_address", interested_user_id, "True",
                                    1, melissa_response, 1)
           ELSE /\ table' = [table EXCEPT ![interested_user_id] = InvalidUpdate(@)]
                /\ repo' = RepoCall("verify_address", interested_user_id, "False",
                                    1, melissa_response, 1)
        /\ UNCHANGED <<webVars, probe>>

RepoInit ==
    /\ session = EmptyDict
    /\ expired = {}
    /\ db = Dataset(0, FALSE)
    /\ reqs = [t \in Tabs |-> IdleReq]
    /\ snap = NoSnap
    /\ probe = NoProbe
    /\ table = EmptyDict
    /\ repo = NoRepoCall

RepoNext == InsertInterestedUser \/ VerifyAddress

RepoSpec == RepoInit /\ [][RepoNext]_vars

----------------------------------------------------------------------------
(* What the claims speak of *)

\* The calls determine_workflow_state made in the derivation that last returned.
DwsCalls(r) ==
    SelectSeq(r.calls, LAMBDA c : c.by = DWS /\ c.derived = r.derived - 1)

JustDerived(r) == r.pc = "handler"

HumanSources(d, a) == SelectSeq(d.sources[a], IsHuman)

\* The first precondition the dataset leaves unmet, read off the dataset.
FirstUnmet(d) ==
    IF Len(d.accts) = 0 THEN NEEDS_ACCOUNT
    ELSE IF Len(HumanSources(d, d.accts[1])) = 0 THEN NEEDS_HUMAN_SOURCE
    ELSE LET s == HumanSources(d, d.accts[1])[1].source_id
         IN IF PrimarySurvey \notin Range(d.surveys[s]) THEN NEEDS_PRIMARY_SURVEY
            ELSE IF Len(d.samples[s]) = 0 THEN NEEDS_SAMPLE
            ELSE ALL_DONE

\* The queries of the fixed order, for the dataset's first account and source.
QueryOrder(d) ==
    LET a == IF Len(d.accts) = 0 THEN 0 ELSE d.accts[1]
        s == IF a = 0 \/ Len(HumanSources(d, a)) = 0 THEN 0
             ELSE HumanSources(d, a)[1].source_id
    IN <<Plain("/accounts"),
         Url("/accounts/{a}/sources", a, 0, 0),
         Url("/accounts/{a}/sources/{s}/surveys", a, s, 0),
         Url("/accounts/{a}/sources/{s}/samples", a, s, 0)>>

QueriesUpTo(state) ==
    CASE state = NEEDS_ACCOUNT -> 1
      [] state = NEEDS_HUMAN_SOURCE -> 2
      [] state = NEEDS_PRIMARY_SURVEY -> 3
      [] OTHER -> 4

\* C1: in a logged-in session, a derivation whose queries all succeeded returns
\* the first state, in the order accounts, human sources, primary survey,
\* samples, whose precondition the dataset leaves unmet (AllDone if none is),
\* and it made exactly the queries up to that precondition, in that order.
C1_FirstUnmetState ==
    \A t \in Tabs :
        LET r == reqs[t]
            made == DwsCalls(r)
        IN (/\ JustDerived(r)
            /\ Has(session, TOKEN_KEY_NAME)
            /\ \A i \in DOMAIN made : ~made[i].do_return)
           => /\ r.wstate = FirstUnmet(db)
              /\ [i \in DOMAIN made |-> made[i].path]
                    = SubSeq(QueryOrder(db), 1, QueriesUpTo(r.wstate))
              /\ \A i \in DOMAIN made : made[i].method = "GET"

\* A derivation that stopped at the primary survey although a second account,
\* an animal source and a survey of another template are in the dataset.
C1_Witness ==
    \E t \in Tabs :
        /\ JustDerived(reqs[t])
        /\ reqs[t].wstate = NEEDS_PRIMARY_SURVEY
        /\ Len(DwsCalls(reqs[t])) = 3
        /\ Len(db.accts) = 2
        /\ Len(db.surveys[11]) = 1
        /\ Len(db.sources[1]) = 2

\* The state each guarded handler requires.
Guarded ==
    {"get_workflow_create_account", "post_workflow_create_account",
     "get_workflow_create_human_source", "post_workflow_create_human_source",
     "get_workflow_claim_kit_samples", "post_workflow_claim_kit_samples",
     "get_workflow_fill_primary_survey", "post_workflow_fill_primary_survey",
     "get_source", "get_sample", "put_sample"}

Required(fn) ==
    CASE fn \in {"get_workflow_create_account", "post_workflow_create_account"} ->
            NEEDS_ACCOUNT
      [] fn \in {"get_workflow_create_human_source",
                 "post_workflow_create_human_source"} -> NEEDS_HUMAN_SOURCE
      [] fn \in {"get_workflow_claim_kit_samples",
                 "post_workflow_claim_kit_samples"} -> NEEDS_SAMPLE
      [] fn \in {"get_workflow_fill_primary_survey",
                 "post_workflow_fill_primary_survey"} -> NEEDS_PRIMARY_SURVEY
      [] OTHER -> ALL_DONE

\* The calls a handler made itself, after the derivation that last returned.
OwnCalls(r) ==
    SelectSeq(r.calls, LAMBDA c : c.by # DWS /\ c.derived = r.derived)

\* C2: a guarded handler makes a call of its own only in a request whose
\* derived state is the state it requires; a finished handler whose derived
\* state is another one (NeedsLogin and NeedsReroute included) answered with a
\* redirect to /workflow and made no call after the derivation.
C2_GuardThenAct ==
    \A t \in Tabs :
        LET r == reqs[t]
        IN /\ \A i \in DOMAIN r.calls :
                r.calls[i].by # DWS =>
                    /\ r.calls[i].by \in Guarded
                    /\ r.calls[i].state = Required(r.calls[i].by)
           /\ (r.pc = "done" /\ r.fn \in Guarded /\ r.wstate # Required(r.fn))
                => /\ r.resp = ToWorkflow
                   /\ Len(OwnCalls(r)) = 0

\* put_sample, reached while a query of the derivation failed: a redirect.
C2_Witness ==
    \E t \in Tabs :
        /\ reqs[t].pc = "done" /\ reqs[t].fn = "put_sample"
        /\ reqs[t].wstate = NEEDS_REROUTE
        /\ reqs[t].resp = ToWorkflow
        /\ Len(reqs[t].calls) = 2

\* C3 (as claimed): a derivation in which a query fails stops at that query
\* and returns NeedsReroute with the failing query's output as the context's
\* reroute entry, and /workflow returns that output.
C3_RerouteIsFailingOutput ==
    \A t \in Tabs :
        LET r == reqs[t]
            made == DwsCalls(r)
        IN /\ (JustDerived(r) /\ \E i \in DOMAIN made : made[i].do_return)
                => /\ r.wstate = NEEDS_REROUTE
                   /\ made[Len(made)].do_return
                   /\ \A i \in 1..(Len(made) - 1) : ~made[i].do_return
                   /\ r.ctx["reroute"] = made[Len(made)].output
           /\ (r.pc = "done" /\ r.fn = "workflow" /\ r.wstate = NEEDS_REROUTE)
                => r.resp = r.calls[Len(r.calls)].output

\* The association calls of post_workflow_claim_kit_samples, after its kit query.
KitQuery(r) == OwnCalls(r)[1]
Associations(r) == Tail(OwnCalls(r))
Claiming(r) ==
    /\ r.fn = "post_workflow_claim_kit_samples"
    /\ r.pc \in {"associate", "done"}
    /\ r.wstate = NEEDS_SAMPLE
    /\ Len(OwnCalls(r)) > 0

\* C5 (as claimed): in NeedsSample the handler associates the kit's samples in
\* the order of the kit query, each to the account and source of the context;
\* it stops at the first failed association and returns its output, the
\* samples associated before stay associated, and it redirects to /workflow
\* only if every association succeeded.
C5_ClaimKitSamples ==
    \A t \in Tabs :
        LET r == reqs[t]
            kit == KitQuery(r)
            made == Associations(r)
        IN Claiming(r) =>
            /\ kit.method = "GET" /\ kit.path = Plain("/kits")
            /\ kit.arg = Arg("kit_name", r.kit_name, 0)
            /\ kit.do_return => (made = <<>> /\ r.pc = "done" /\ r.resp = kit.output)
            /\ ~kit.do_return =>
                /\ Len(made) <= Len(kit.output.val)
                /\ \A i \in DOMAIN made :
                    /\ made[i].method = "POST"
                    /\ made[i].path = Url("/accounts/{a}/sources/{s}/samples",
                                          r.ctx["account_id"],
                                          r.ctx["human_source_id"], 0)
                    /\ made[i].arg = Arg("sample_id", "", kit.output.val[i].sample_id)
                    /\ (i < Len(made) => ~made[i].do_return)
                    /\ (~made[i].do_return =>
                            kit.output.val[i].sample_id
                                \in Range(db.samples[r.ctx["human_source_id"]]))
                /\ (r.pc = "done" /\ made # <<>> /\ made[Len(made)].do_return)
                        => r.resp = made[Len(made)].output
                /\ (r.pc = "done" /\ r.resp = ToWorkflow)
                        => /\ Len(made) = Len(kit.output.val)
                           /\ \A i \in DOMAIN made : ~made[i].do_return
                /\ (r.pc = "done" /\ Len(made) = Len(kit.output.val)
                        /\ \A i \in DOMAIN made : ~made[i].do_return)
                        => r.resp = ToWorkflow

\* C6 (as claimed): the redirect returned after a 401 leads the browser to the
\* login page, /home, not to a workflow handler.
C6_LoginRedirectOn401 ==
    \A t \in Tabs : reqs[t].origin = "redirect401" => reqs[t].handler = "home"

\* C8: within a request no call follows one that signalled needs-reroute.
C8_NoCallAfterReroute ==
    \A t \in Tabs :
        \A i \in DOMAIN reqs[t].calls :
            reqs[t].calls[i].do_return => i = Len(reqs[t].calls)

\* A claim request that ended at the failure of its first association, with
\* a second sample still to associate.
C8_Witness ==
    \E t \in Tabs :
        /\ reqs[t].pc = "done"
        /\ reqs[t].fn = "post_workflow_claim_kit_samples"
        /\ Len(reqs[t].queue) = 2
        /\ reqs[t].calls[Len(reqs[t].calls)].do_return
        /\ reqs[t].calls[Len(reqs[t].calls)].method = "POST"

\* C9: home, asked with an expired token in the session, redirects to /logout;
\* the logout the browser is led to removes the token and redirects to /home,
\* and the home page it is led to then is rendered with no user.
C9_ForcedRelogin ==
    /\ [][\A t \in Tabs :
            (/\ reqs[t].pc = "home" /\ reqs'[t].pc # "home"
             /\ Has(session, TOKEN_KEY_NAME)
             /\ IsExpired(session[TOKEN_KEY_NAME]))
            => /\ reqs'[t].pc = "done"
               /\ reqs'[t].resp = Redirect(Plain("/logout"))
               /\ reqs'[t].calls = <<>>]_vars
    /\ [](\A t \in Tabs :
            (reqs[t].pc = "done" /\ reqs[t].origin = "expired")
            => /\ reqs[t].handler = "logout"
               /\ reqs[t].resp = Redirect(Plain("/home"))
               /\ ~Has(session, TOKEN_KEY_NAME))
    /\ [](\A t \in Tabs :
            (reqs[t].pc = "done" /\ reqs[t].origin = "forced_logout")
            => /\ reqs[t].handler = "home"
               /\ ~Has(session, TOKEN_KEY_NAME)
               /\ reqs[t].resp = HomePage("", 0))

C9_Witness ==
    \E t \in Tabs :
        /\ reqs[t].pc = "done" /\ reqs[t].origin = "forced_logout"
        /\ reqs[t].resp = HomePage("", 0)

\* C4: a derivation that gets the responses an earlier one got, in a session
\* that holds a token as the earlier one did, returns the same state and the
\* same context.
C4_Deterministic ==
    \A t \in Tabs :
        LET r == reqs[t]
        IN (/\ JustDerived(r)
            /\ snap.taken
            /\ snap.has_token = Has(session, TOKEN_KEY_NAME)
            /\ snap.responses = Responses(DwsCalls(r)))
           => /\ r.wstate = snap.state
              /\ r.ctx = snap.ctx

\* The second derivation of a request (get_workflow_claim_kit_samples calling
\* post_workflow_claim_kit_samples) that got what a recorded one got.
C4_Witness ==
    \E t \in Tabs :
        /\ JustDerived(reqs[t])
        /\ reqs[t].derived = 2
        /\ snap.taken /\ snap.has_token
        /\ snap.responses = Responses(DwsCalls(reqs[t]))
        /\ Len(snap.responses) = 4

\* C7: the classification goes by the status code alone: 401 gives
\* (TRUE, a redirect), any other status from 400 on (TRUE, the error page),
\* any status below 400 (FALSE, the parsed body, or None for an empty body);
\* exactly one of the three applies.
C7_Classification ==
    probe.applied =>
        LET st == probe.status_code
            asLogin == probe.do_return /\ probe.output.kind = "redirect"
            asError == /\ probe.do_return /\ probe.output.kind = "page"
                       /\ probe.output.template = "error.jinja2"
            asResult == /\ ~probe.do_return
                        /\ probe.output = IF probe.text = "" THEN None ELSE probe.json
        IN /\ (st = 401 => asLogin)
           /\ (st >= 400 /\ st # 401 => asError)
           /\ (st < 400 => asResult)
           /\ Cardinality({b \in {<<1, asLogin>>, <<2, asError>>, <<3, asResult>>} :
                            b[2]}) = 1

C7_Witness ==
    /\ probe.applied /\ probe.status_code = 400
    /\ probe.do_return /\ probe.output.kind = "page"

\* The guard of verify_address as the claims word it: the row is there, not
\* yet checked, and address_1, postal_code and country are not empty.
GuardMet(tbl, id) ==
    /\ id \in DOMAIN tbl
    /\ ~tbl[id].address_checked
    /\ tbl[id].address_1 # "" /\ tbl[id].postal_code # "" /\ tbl[id].country # ""

\* C10: a verify_address call whose guard is not met (row absent, already
\* checked, or address_1, postal_code or country empty) returns None, makes
\* no verifier call and leaves the table as it found it.
C10_NoOpWhenGuardUnmet ==
    (repo.op = "verify_address" /\ ~GuardMet(repo.before, repo.id))
        => /\ repo.ret = "None"
           /\ repo.verifier = 0
           /\ table = repo.before

\* A call on a row that an earlier call has verified.
C10_Witness ==
    /\ repo.op = "verify_address"
    /\ repo.id \in DOMAIN repo.before
    /\ repo.before[repo.id].address_checked
    /\ repo.before[repo.id].latitude # ""
    /\ repo.ret = "None"

\* A verify_address call that found its row and asked the verifier.
Verifying ==
    /\ repo.op = "verify_address"
    /\ GuardMet(repo.before, repo.id)
    /\ repo.verifier = 1

\* All rows but the call's are as the call found them.
OtherRowsKept ==
    /\ DOMAIN table = DOMAIN repo.before
    /\ \A u \in DOMAIN table : u # repo.id => table[u] = repo.before[u]

\* C11: a verify_address call on a row that passes the guard, with the verifier
\* reporting the address valid, returns True; the row is then checked and
\* valid, holds the verifier's address_1, address_2, city, state, postal_code,
\* latitude and longitude, and its country from before the call.
C11_ValidVerification ==
    (Verifying /\ ~repo.melissa.raises /\ repo.melissa.valid)
        => LET row == table[repo.id]
               m == repo.melissa
           IN /\ repo.ret = "True"
              /\ row.address_checked /\ row.address_valid
              /\ row.address_1 = m.address_1 /\ row.address_2 = m.address_2
              /\ row.city = m.city /\ row.state = m.state
              /\ row.postal_code = m.postal
              /\ row.latitude = m.latitude /\ row.longitude = m.longitude
              /\ row.country = repo.before[repo.id].country
              /\ OtherRowsKept

C11_Witness ==
    /\ Verifying /\ repo.ret = "True"
    /\ repo.before[repo.id].address_1 = "9500 gilman"
    /\ table[repo.id].address_1 = "9500 GILMAN DR"
    /\ table[repo.id].country = "United States"

\* C12: a verify_address call on a row that passes the guard, with the verifier
\* not reporting the address valid, returns False; the row is then checked
\* and not valid, and all its address columns are as before the call.
C12_InvalidVerification ==
    (Verifying /\ ~repo.melissa.raises /\ ~repo.melissa.valid)
        => LET row == table[repo.id]
               old == repo.before[repo.id]
           IN /\ repo.ret = "False"
              /\ row.address_checked /\ ~row.address_valid
              /\ row = [old EXCEPT !.address_checked = TRUE, !.address_valid = FALSE]
              /\ OtherRowsKept

\* The row was inserted as valid and is found invalid.
C12_Witness ==
    /\ Verifying /\ repo.ret = "False"
    /\ repo.before[repo.id].address_valid
    /\ ~table[repo.id].address_valid

\* C13: verify_address writes a row at most once; a call that returns True or
\* False makes the row's first write, and every call on a row already
\* written returns None, does not ask the verifier and leaves the table as it
\* found it.
C13_VerifiedOnce ==
    /\ \A u \in UserIds : repo.writes[u] <= 1
    /\ (repo.op = "verify_address" /\ repo.ret \in {"True", "False"})
          => repo.writes[repo.id] = 1 /\ ~repo.before[repo.id].address_checked
    /\ (/\ repo.op = "verify_address"
        /\ repo.writes[repo.id] = 1
        /\ repo.ret \notin {"True", "False"})
          => /\ repo.ret = "None"
             /\ repo.verifier = 0
             /\ table = repo.before

\* A call on a row that an earlier call found invalid.
C13_Witness ==
    /\ repo.op = "verify_address"
    /\ repo.writes[repo.id] = 1
    /\ repo.ret = "None"
    /\ ~table[repo.id].address_valid
    /\ table[repo.id].address_1 # ""

\* C14: a verify_address call whose verifier raises fails with a
\* RepoException after that one verifier call, and leaves the table as it
\* found it, the row unchecked.
C14_VerifierRaises ==
    (Verifying /\ repo.melissa.raises)
        => /\ repo.ret = "RepoException"
           /\ repo.verifier = 1
           /\ table = repo.before
           /\ ~table[repo.id].address_checked

C14_Witness ==
    /\ Verifying /\ repo.melissa.raises
    /\ repo.ret = "RepoException"

\* C15: insert_interested_user either adds one row and returns its id, or
\* fails with a RepoException and adds none.
C15_InsertReturnsIdOrRepoException ==
    repo.op = "insert_interested_user"
        => \/ /\ repo.ret = "id"
              /\ repo.id \notin DOMAIN repo.before
              /\ DOMAIN table = DOMAIN repo.before \cup {repo.id}
              /\ \A u \in DOMAIN repo.before : table[u] = repo.before[u]
           \/ /\ repo.ret = "RepoException"
              /\ table = repo.before

\* C16: /workflow answers NeedsAccount, NeedsHumanSource, NeedsPrimarySurvey and
\* NeedsSample with a redirect to a browser route whose GET handler requires
\* that state, NeedsLogin with a redirect to /home, and AllDone with a redirect
\* to /accounts/{account_id}/sources/{human_source_id} of the context.
C16_WorkflowRoutes ==
    \A t \in Tabs :
        LET r == reqs[t]
        IN (r.pc = "done" /\ r.fn = "workflow") =>
            /\ r.wstate \in {NEEDS_ACCOUNT, NEEDS_HUMAN_SOURCE,
                             NEEDS_PRIMARY_SURVEY, NEEDS_SAMPLE}
                  => /\ r.resp.kind = "redirect"
                     /\ HandlerOf("GET", r.resp.location.path) \in Guarded
                     /\ Required(HandlerOf("GET", r.resp.location.path)) = r.wstate
            /\ r.wstate = NEEDS_LOGIN => r.resp = Redirect(Plain("/home"))
            /\ r.wstate = ALL_DONE
                  => r.resp = Redirect(Url("/accounts/{a}/sources/{s}",
                                           r.ctx["account_id"],
                                           r.ctx["human_source_id"], 0))

\* The context keys a handler reads once its state check has passed.
KeysRead(fn) ==
    CASE fn \in {"get_workflow_create_human_source",
                 "post_workflow_create_human_source"} -> {"account_id"}
      [] fn \in {"get_workflow_claim_kit_samples", "post_workflow_claim_kit_samples",
                 "get_workflow_fill_primary_survey",
                 "post_workflow_fill_primary_survey"} ->
            {"account_id", "human_source_id"}
      [] OTHER -> {}

\* C17: when determine_workflow_state returns a state other than NeedsReroute,
\* the context holds account_id exactly in NeedsHumanSource, NeedsPrimarySurvey,
\* NeedsSample and AllDone, human_source_id exactly in NeedsPrimarySurvey,
\* NeedsSample and AllDone, and sample_objs exactly in AllDone; a handler whose
\* state check passes, and /workflow in AllDone, finds the keys it reads.
C17_ContextKeys ==
    \A t \in Tabs :
        LET r == reqs[t]
        IN (JustDerived(r) /\ r.wstate # NEEDS_REROUTE) =>
            /\ Has(r.ctx, "account_id")
                  <=> r.wstate \in {NEEDS_HUMAN_SOURCE, NEEDS_PRIMARY_SURVEY,
                                    NEEDS_SAMPLE, ALL_DONE}
            /\ Has(r.ctx, "human_source_id")
                  <=> r.wstate \in {NEEDS_PRIMARY_SURVEY, NEEDS_SAMPLE, ALL_DONE}
            /\ Has(r.ctx, "sample_objs") <=> r.wstate = ALL_DONE
            /\ (r.fn \in Guarded /\ r.wstate = Required(r.fn))
                  => KeysRead(r.fn) \subseteq DOMAIN r.ctx
            /\ (r.fn = "workflow" /\ r.wstate = ALL_DONE)
                  => {"account_id", "human_source_id"} \subseteq DOMAIN r.ctx

\* The claim handler about to read both ids in NeedsSample, no samples in the
\* context.
C17_Witness ==
    \E t \in Tabs :
        /\ JustDerived(reqs[t])
        /\ reqs[t].fn = "post_workflow_claim_kit_samples"
        /\ reqs[t].wstate = NEEDS_SAMPLE
        /\ DOMAIN reqs[t].ctx = {"account_id", "human_source_id"}

\* The order of progression.
Rank(state) ==
    CASE state = NEEDS_ACCOUNT -> 1
      [] state = NEEDS_HUMAN_SOURCE -> 2
      [] state = NEEDS_PRIMARY_SURVEY -> 3
      [] state = NEEDS_SAMPLE -> 4
      [] state = ALL_DONE -> 5
      [] OTHER -> 0

Creating ==
    {"post_workflow_create_account", "post_workflow_create_human_source",
     "post_workflow_fill_primary_survey"}

\* C18: with requests handled one at a time in a logged-in session, a
\* derivation never returns a state before the state an earlier derivation
\* returned, in the order NeedsAccount, NeedsHumanSource, NeedsPrimarySurvey,
\* NeedsSample, AllDone; and a creating handler issues its creating call only
\* while the dataset is at the state the handler requires, a successful call
\* moving the dataset past that state, so that no step is created twice.
C18_Monotonic ==
    /\ [](\A t \in Tabs :
            (/\ JustDerived(reqs[t]) /\ snap.taken
             /\ snap.has_token /\ Has(session, TOKEN_KEY_NAME)
             /\ Rank(snap.state) > 0 /\ Rank(reqs[t].wstate) > 0)
            => Rank(reqs[t].wstate) >= Rank(snap.state))
    /\ [][\A t \in Tabs :
            (/\ Len(reqs'[t].calls) = Len(reqs[t].calls) + 1
             /\ reqs'[t].calls[Len(reqs'[t].calls)].by \in Creating)
            => LET c == reqs'[t].calls[Len(reqs'[t].calls)]
               IN /\ FirstUnmet(db) = Required(c.by)
                  /\ Len(SelectSeq(reqs[t].calls, LAMBDA d : d.by \in Creating)) = 0
                  /\ IF c.do_return THEN db' = db
                     ELSE Rank(FirstUnmet(db')) > Rank(FirstUnmet(db))]_vars

\* A derivation that returns AllDone after one that returned NeedsAccount.
C18_Witness ==
    \E t \in Tabs :
        /\ JustDerived(reqs[t])
        /\ reqs[t].wstate = ALL_DONE
        /\ snap.taken /\ snap.state = NEEDS_ACCOUNT
        /\ Has(session, TOKEN_KEY_NAME)

\* The POST /accounts calls of a request.
AccountPosts(r) ==
    SelectSeq(r.calls, LAMBDA c : c.method = "POST" /\ c.path = Plain("/accounts"))

\* C19: of two post_workflow_create_account requests of one session, one that
\* arrives after the other was answered, the other's POST /accounts having
\* succeeded, issues no POST /accounts; a request issues that call only on
\* having derived NeedsAccount itself.  (That two interleaved requests can both
\* derive NeedsAccount and both issue the call is the witness.)
C19_SequentialCreatesOnce ==
    \A t \in Tabs, u \in Tabs :
        /\ \A i \in DOMAIN AccountPosts(reqs[u]) :
                AccountPosts(reqs[u])[i].state = NEEDS_ACCOUNT
        /\ (/\ t # u
            /\ reqs[u].origin = "user, other tab answered"
            /\ \E i \in DOMAIN AccountPosts(reqs[t]) : ~AccountPosts(reqs[t])[i].do_return)
           => Len(AccountPosts(reqs[u])) = 0

\* The race: both requests arrived before either was answered, both derived
\* NeedsAccount, both issued POST /accounts, and both calls succeeded: the
\* session's user has two accounts.
C19_Witness ==
    /\ \A t \in Tabs :
        /\ reqs[t].origin = "user"
        /\ reqs[t].wstate = NEEDS_ACCOUNT
        /\ Len(AccountPosts(reqs[t])) = 1
        /\ ~AccountPosts(reqs[t])[1].do_return
    /\ Len(db.accts) = 2

\* C20: a browser that starts at /workflow and follows every redirect, all API
\* calls succeeding, comes to a response that is no redirect.
C20_RedirectChainsEnd ==
    <>(reqs[1].pc = "done" /\ reqs[1].resp.kind # "redirect")

\* A request about to call ApiRequest.get, put or post: inside
\* determine_workflow_state after its login check, in the loop of
\* associations, or in a guarded handler whose state check has passed.
CallPoint(r) ==
    \/ r.pc \in {"dws_accounts", "dws_sources", "dws_surveys", "dws_samples", "associate"}
    \/ r.pc = "handler" /\ r.fn \in Guarded /\ r.wstate = Required(r.fn)

\* C21: a request is about to make an API call only while the session holds
\* the token, every call made carried a token, and no guarded handler, home or
\* /workflow ends in the KeyError of a failed token lookup; without a token,
\* determine_workflow_state returns NeedsLogin with an empty context and has
\* made no call, and it returns NeedsLogin in no other case.
C21_NoCallWithoutToken ==
    \A t \in Tabs :
        LET r == reqs[t]
        IN /\ CallPoint(r) => Has(session, TOKEN_KEY_NAME)
           /\ \A i \in DOMAIN r.calls : r.calls[i].auth \in Tokens
           /\ (r.pc = "done" /\ r.resp = Raised("KeyError")) => r.handler = "logout"
           /\ JustDerived(r) =>
                /\ r.wstate = NEEDS_LOGIN <=> ~Has(session, TOKEN_KEY_NAME)
                /\ r.wstate = NEEDS_LOGIN =>
                        /\ r.ctx = EmptyDict
                        /\ Len(DwsCalls(r)) = 0
                        /\ Len(OwnCalls(r)) = 0

\* put_sample in a session without a token: NeedsLogin, empty context, no call.
C21_Witness ==
    \E t \in Tabs :
        /\ JustDerived(reqs[t])
        /\ reqs[t].fn = "put_sample"
        /\ ~Has(session, TOKEN_KEY_NAME)
        /\ reqs[t].wstate = NEEDS_LOGIN
        /\ reqs[t].calls = <<>>

\* C22: a request to /logout, whatever the session holds, ends with no token
\* in the session and a redirect to /home.
C22_LogoutAlwaysSucceeds ==
    \A t \in Tabs :
        (reqs[t].pc = "done" /\ reqs[t].handler = "logout")
            => /\ ~Has(session, TOKEN_KEY_NAME)
               /\ reqs[t].resp = Redirect(Plain("/home"))

====
